---- MODULE Spec2Model ----
(***************************************************************************)
(* Model of server/audioProcessor.py: beat detection result handling,      *)
(* loudest-window selection, shuffle, intro assembly, crossfade splice and *)
(* export of the "extended mix" job.                                       *)
(*                                                                         *)
(* Audio buffers (pydub AudioSegment) are modelled at one sample per       *)
(* millisecond, run-length encoded: a buffer is a sequence of runs         *)
(*   [d |-> duration in ms, layers |-> <<layer, ...>>]                     *)
(* and a layer is [a |-> amplitude, env |-> <<envelope, ...>>] where an    *)
(* envelope <<kind, t0, T>> says the layer is t0 ms into a linear fade     *)
(* ("in" or "out") of T ms.  A decoded stem has one layer per run and no   *)
(* envelope; fades add envelopes, an overlay adds layers.                  *)
(***************************************************************************)
EXTENDS Integers, Sequences, FiniteSets, TLC

\* ---------------------------------------------------------------- constants
DEFAULT_BARS_COUNT == 4
DEFAULT_BEATS_PER_BAR == 4
OTHER_STEM_GAIN_DB == 9
MS_PER_SECOND == 1000
MINIMUM_BEATS_BUFFER == 8
FADE_IN_MS == 2000
CROSSFADE_MS == 500

\* ------------------------------------------------------------------- bounds
\* Beat times are floats in the code; the model keeps them as integer counts
\* of 1/TimeRes (of a second in beat_times, of a millisecond in beats_ms).
TimeRes == 6
\* pick_loudest_bars on its own: longest beat grid and stem length (ms).
MaxPickBeats == 5
PickStemMs == 3

\* ------------------------------------------------------------ small helpers
Min(a, b) == IF a < b THEN a ELSE b

\* Python's 0-based list indexing.
At(list, i) == list[i + 1]

\* floor(sqrt(n)) as audioop.rms truncates it.
ISqrt(n) == CHOOSE r \in 0..n : r * r <= n /\ (r + 1) * (r + 1) > n

\* ------------------------------------------------------------ audio buffers
FlatRun(d, a) == [d |-> d, layers |-> << [a |-> a, env |-> << >>] >>]

RECURSIVE Duration(_)
\* len(AudioSegment): the duration in ms.
Duration(seg) == IF seg = << >> THEN 0 ELSE Head(seg).d + Duration(Tail(seg))

\* The layers of a run, k ms further into every fade they are in.
Advance(layers, k) ==
    [i \in DOMAIN layers |->
        [a |-> layers[i].a,
         env |-> [j \in DOMAIN layers[i].env |->
                    << layers[i].env[j][1], layers[i].env[j][2] + k,
                       layers[i].env[j][3] >>]]]

RECURSIVE Norm(_)
\* Canonical run-length form: no empty run, no two adjacent runs that continue
\* each other.
Norm(seg) ==
    IF seg = << >> THEN << >>
    ELSE IF Head(seg).d = 0 THEN Norm(Tail(seg))
    ELSE LET rest == Norm(Tail(seg))
         IN  IF rest # << >> /\ Head(rest).layers = Advance(Head(seg).layers, Head(seg).d)
             THEN << [d |-> Head(seg).d + Head(rest).d, layers |-> Head(seg).layers] >>
                  \o Tail(rest)
             ELSE << Head(seg) >> \o rest

RECURSIVE Take(_, _)
\* The first n ms of a buffer (0 <= n <= Duration).
Take(seg, n) ==
    IF n <= 0 \/ seg = << >> THEN << >>
    ELSE IF Head(seg).d <= n THEN << Head(seg) >> \o Take(Tail(seg), n - Head(seg).d)
    ELSE << [d |-> n, layers |-> Head(seg).layers] >>

RECURSIVE Drop(_, _)
\* A buffer without its first n ms (0 <= n <= Duration).
Drop(seg, n) ==
    IF n <= 0 \/ seg = << >> THEN seg
    ELSE IF Head(seg).d <= n THEN Drop(Tail(seg), n - Head(seg).d)
    ELSE << [d |-> Head(seg).d - n, layers |-> Advance(Head(seg).layers, n)] >>
         \o Tail(seg)

\* AudioSegment._parse_position: a negative position counts from the end.
ParsePosition(seg, val) == IF val < 0 THEN Duration(seg) - (0 - val) ELSE val

\* AudioSegment.__getitem__ with a slice seg[start:stop]: both ends are capped
\* at the buffer's length, and an empty or inverted range gives an empty buffer.
GetSlice(seg, start, stop) ==
    LET s == ParsePosition(seg, Min(start, Duration(seg)))
        e == ParsePosition(seg, Min(stop, Duration(seg)))
    IN  IF e <= s THEN << >> ELSE Norm(Take(Drop(seg, s), e - s))

RECURSIVE SumSquares(_)
SumSquares(seg) ==
    IF seg = << >> THEN 0
    ELSE Head(seg).d * Head(seg).layers[1].a * Head(seg).layers[1].a
         + SumSquares(Tail(seg))

\* AudioSegment.rms (audioop.rms) of a decoded buffer: the truncated root of the
\* mean square, 0 for an empty buffer.
Rms(seg) == IF Duration(seg) = 0 THEN 0 ELSE ISqrt(SumSquares(seg) \div Duration(seg))

\* ------------------------------------------------------ pick_loudest_bars
\* int(beats_ms[i]) of a non-negative beat position.
IntMs(x) == x \div TimeRes

\* The comparison that moves the maximum during the scan.
LouderLastWins(rms, max_rms) == rms >= max_rms
Louder(rms, max_rms) == rms > max_rms

RECURSIVE ScanFrom(_, _, _, _, _, _)
\* The loop `for i in range(total_beats - window)`, from iteration i on, with
\* the loop's max_rms and pick_start; yields the final pick_start.
ScanFrom(stem, beats_ms, window, i, max_rms, pick_start) ==
    IF i >= Len(beats_ms) - window THEN pick_start
    ELSE LET start_ms == IntMs(At(beats_ms, i))
             end_ms == IntMs(At(beats_ms, i + window))
             rms == Rms(GetSlice(stem, start_ms, end_ms))
         IN  IF Louder(rms, max_rms)
             THEN ScanFrom(stem, beats_ms, window, i + 1, rms, i)
             ELSE ScanFrom(stem, beats_ms, window, i + 1, max_rms, pick_start)

\* Lines 167-180: the start index the scan settles on.
PickStart(stem, beats_ms, window) == ScanFrom(stem, beats_ms, window, 0, -1, 0)

\* A plausible slip: the end of the slice is left open.
PickedSliceOpenEnd(stem, beats_ms, pick_start, window) ==
    GetSlice(stem, IntMs(At(beats_ms, pick_start)), Duration(stem))
\* Lines 181-183: the slice returned for the chosen start index.
PickedSlice(stem, beats_ms, pick_start, window) ==
    GetSlice(stem, IntMs(At(beats_ms, pick_start)),
             IntMs(At(beats_ms, pick_start + window)))

pick_loudest_bars(stem, beats_ms, bars, beats_per_bar) ==
    LET total_beats == Len(beats_ms)
        window == beats_per_bar * bars
    IN  IF total_beats < window + 1 THEN stem
        ELSE PickedSlice(stem, beats_ms, PickStart(stem, beats_ms, window), window)

\* The 0-based indices of beats_ms that a call reads (lines 173-182).
GridReads(stem, beats_ms, bars, beats_per_bar) ==
    LET total_beats == Len(beats_ms)
        window == beats_per_bar * bars
        ps == PickStart(stem, beats_ms, window)
    IN  IF total_beats < window + 1 THEN {}
        ELSE UNION {{i, i + window} : i \in 0..(total_beats - window - 1)}
             \cup {ps, ps + window}

\* ------------------------------------------------- detect_tempo_and_beats
\* What a detector library call can do: raise, or yield a tempo and beats.
\* Beat times are in units of 1/TimeRes s.
NoDetection == [none |-> TRUE, tempo |-> 0, beat_times |-> << >>, by |-> "none"]
Detected(tempo, beat_times, by) ==
    [none |-> FALSE, tempo |-> tempo, beat_times |-> beat_times, by |-> by]

\* Line 87: the librosa result is used only with some beats and a tempo > 0.
LibrosaUsable(lib) == Len(lib.beats) > 0 /\ lib.tempo > 0

\* Lines 81-117, given what the librosa and the madmom calls would do.
detect_tempo_and_beats(method, lib, mad) ==
    IF method \in {"librosa", "auto"} /\ ~lib.raised /\ LibrosaUsable(lib)
    THEN Detected(lib.tempo, lib.beats, "librosa")
    ELSE IF method = "librosa" THEN NoDetection
    ELSE IF method \in {"madmom", "auto"} /\ ~mad.raised
    THEN Detected(mad.tempo, mad.beats, "madmom")
    ELSE NoDetection

\* Line 283: process_audio gives up on a missing result or an empty beat list.
DetectionFailed(det) == det.none \/ Len(det.beat_times) = 0

\* ---------------------------------------------------------- output path
\* A path is a sequence of one-character strings.
Digits == {"0", "1", "2", "3", "4", "5", "6", "7", "8", "9"}
DigitValue(c) ==
    CASE c = "0" -> 0 [] c = "1" -> 1 [] c = "2" -> 2 [] c = "3" -> 3
      [] c = "4" -> 4 [] c = "5" -> 5 [] c = "6" -> 6 [] c = "7" -> 7
      [] c = "8" -> 8 [] c = "9" -> 9

\* The positions at which sub occurs in str.
Occurrences(str, sub) ==
    {i \in 1..(Len(str) - Len(sub) + 1) : SubSeq(str, i, i + Len(sub) - 1) = sub}

\* `sub in str`
Contains(str, sub) == Occurrences(str, sub) # {}

\* str.split(sub)[-1]: what follows the last occurrence (all of str without one).
SplitLast(str, sub) ==
    IF Occurrences(str, sub) = {} THEN str
    ELSE LET i == CHOOSE k \in Occurrences(str, sub) :
                      \A j \in Occurrences(str, sub) : j <= k
         IN  SubSeq(str, i + Len(sub), Len(str))

\* str.split(sub)[0]: what precedes the first occurrence (all of str without one).
SplitFirst(str, sub) ==
    IF Occurrences(str, sub) = {} THEN str
    ELSE LET i == CHOOSE k \in Occurrences(str, sub) :
                      \A j \in Occurrences(str, sub) : k <= j
         IN  SubSeq(str, 1, i - 1)

\* The texts int() accepts, over an alphabet without blanks: an optional sign,
\* then digits, single underscores allowed between digits.
IsIntLiteral(str) ==
    LET body == IF str # << >> /\ Head(str) \in {"-", "+"} THEN Tail(str) ELSE str
    IN  /\ body # << >>
        /\ \A i \in 1..Len(body) : body[i] \in Digits \cup {"_"}
        /\ body[1] \in Digits /\ body[Len(body)] \in Digits
        /\ \A i \in 1..(Len(body) - 1) : ~(body[i] = "_" /\ body[i + 1] = "_")

RECURSIVE DigitsValue(_, _)
DigitsValue(str, acc) ==
    IF str = << >> THEN acc
    ELSE IF Head(str) = "_" THEN DigitsValue(Tail(str), acc)
    ELSE DigitsValue(Tail(str), 10 * acc + DigitValue(Head(str)))

IntValue(str) ==
    IF Head(str) = "-" THEN 0 - DigitsValue(Tail(str), 0)
    ELSE IF Head(str) = "+" THEN DigitsValue(Tail(str), 0)
    ELSE DigitsValue(str, 0)

\* Lines 212-217.
ParseVersion(output_path) ==
    IF ~Contains(output_path, << "_", "v" >>) THEN 1
    ELSE LET text == SplitFirst(SplitLast(output_path, << "_", "v" >>), << "." >>)
         IN  IF IsIntLiteral(text) THEN IntValue(text) ELSE 1

\* os.path.splitext(output_path)[1][1:]: the text after the last dot of the
\* last path component, leading dots of the component not counting.
ExportFormat(output_path) ==
    LET base == SplitLast(output_path, << "/" >>)
        dots == {i \in 1..Len(base) : base[i] = "."}
        lead == {i \in dots : \A j \in 1..i : base[j] = "."}
    IN  IF dots \ lead = {} THEN << >>
        ELSE LET i == CHOOSE k \in dots : \A j \in dots : j <= k
             IN  SubSeq(base, i + 1, Len(base))

\* The container formats the encoder knows, among the model's paths.
EncodableFormats == {<< "m", "p", "3" >>, << "w", "a", "v" >>}

\* -------------------------------------------------------- intro assembly
\* Lines 203-207.
RequiredBeats(intro_bars, outro_bars) ==
    intro_bars * DEFAULT_BEATS_PER_BAR + outro_bars * DEFAULT_BEATS_PER_BAR
    + MINIMUM_BEATS_BUFFER

\* The gate off by one: a grid of exactly the required length is turned down.
NotEnoughBeatsInclusive(beat_times, intro_bars, outro_bars) ==
    Len(beat_times) <= RequiredBeats(intro_bars, outro_bars)
NotEnoughBeats(beat_times, intro_bars, outro_bars) ==
    Len(beat_times) < RequiredBeats(intro_bars, outro_bars)

\* Line 223.
BeatTimesMs(beat_times) == [k \in DOMAIN beat_times |-> beat_times[k] * MS_PER_SECOND]

\* db_to_float in thousandths, for the gains the module uses.
GainPermille(db) == CASE db = 9 -> 2818 [] db = 0 -> 1000

\* AudioSegment.apply_gain on a decoded buffer: every sample scaled, truncated.
ApplyGain(seg, db) ==
    [i \in DOMAIN seg |->
        [d |-> seg[i].d,
         layers |-> << [a |-> (seg[i].layers[1].a * GainPermille(db)) \div 1000,
                        env |-> << >>] >>]]

RECURSIVE AddEnv(_, _, _, _)
\* A linear fade of `total` ms laid over a buffer that starts t0 ms into it.
AddEnv(seg, kind, t0, total) ==
    IF seg = << >> THEN << >>
    ELSE << [d |-> Head(seg).d,
             layers |-> [i \in DOMAIN Head(seg).layers |->
                            [a |-> Head(seg).layers[i].a,
                             env |-> Append(Head(seg).layers[i].env,
                                            << kind, t0, total >>)]]] >>
         \o AddEnv(Tail(seg), kind, t0 + Head(seg).d, total)

\* AudioSegment.fade_in(duration): the first `duration` ms ramp up over
\* `duration` ms, what follows is left as it is; the length does not change.
FadeIn(seg, duration) ==
    Norm(AddEnv(Take(seg, Min(duration, Duration(seg))), "in", 0, duration)
         \o Drop(seg, Min(duration, Duration(seg))))

RECURSIVE Overlay(_, _)
\* AudioSegment.overlay at position 0: sample-wise sum, as long as the first.
Overlay(seg1, seg2) ==
    IF seg1 = << >> THEN << >>
    ELSE IF seg2 = << >> THEN seg1
    ELSE LET d == Min(Head(seg1).d, Head(seg2).d)
         IN  << [d |-> d, layers |-> Head(seg1).layers \o Head(seg2).layers] >>
             \o Overlay(Drop(seg1, d), Drop(seg2, d))

\* AudioSegment.append(seg, crossfade): ValueError when either buffer is shorter
\* than the crossfade; otherwise seg1 without its tail, the tail fading out
\* under the head of seg2 fading in, then the rest of seg2.
AppendFails(seg1, seg2, crossfade) ==
    crossfade > Duration(seg1) \/ crossfade > Duration(seg2)

AppendButted(seg1, seg2, crossfade) == Norm(seg1 \o seg2)
AppendCrossfade(seg1, seg2, crossfade) ==
    IF crossfade = 0 THEN Norm(seg1 \o seg2)
    ELSE LET tail == GetSlice(seg1, 0 - crossfade, Duration(seg1))
             head == GetSlice(seg2, 0, crossfade)
             xf == Overlay(AddEnv(tail, "out", 0, Duration(tail)),
                           AddEnv(head, "in", 0, Duration(head)))
         IN  Norm(GetSlice(seg1, 0, 0 - crossfade) \o xf
                  \o GetSlice(seg2, crossfade, Duration(seg2)))

RECURSIVE SumOverlaid(_)
\* A sample-wise sum of the segments.
SumOverlaid(segments) ==
    IF segments = << >> THEN << >>
    ELSE IF Len(segments) = 1 THEN Head(segments)
    ELSE Norm(Overlay(Head(segments), SumOverlaid(Tail(segments))))

RECURSIVE SumSegments(_)
\* Line 241, sum(intro_components): 0 + s1 is s1, and s + t on two
\* AudioSegments is s.append(t, crossfade=0).
SumSegments(segments) ==
    IF segments = << >> THEN << >>
    ELSE IF Len(segments) = 1 THEN Head(segments)
    ELSE SumSegments(<< AppendCrossfade(segments[1], segments[2], 0) >>
                     \o SubSeq(segments, 3, Len(segments)))

\* Lines 233-236.
IntroLabels == << "drums", "other", "drums", "vocals" >>
Zip(labels, segments) ==
    [k \in DOMAIN labels |-> [label |-> labels[k], seg |-> segments[k]]]

\* Every arrangement of a list.
Arrangements(list) ==
    {[k \in DOMAIN list |-> list[p[k]]] : p \in Permutations(DOMAIN list)}

\* A shuffle seeded by the version: one arrangement per version.
SeededShuffleOutcomes(list, version) ==
    {[k \in DOMAIN list |-> list[((k - 1 + version) % Len(list)) + 1]]}
\* Labels and segments shuffled apart from each other.
UnpairedShuffleOutcomes(list, version) ==
    {[k \in DOMAIN list |-> [label |-> a[k].label, seg |-> b[k].seg]] :
        a \in Arrangements(list), b \in Arrangements(list)}
\* Line 237, secure_random.shuffle(intro_zipped): SystemRandom takes no seed,
\* any arrangement can come out.
ShuffleOutcomes(list, version) == Arrangements(list)

\* ------------------------------------------- utils.py: the logging level
LowerLetters == << "a", "b", "c", "d", "e", "f", "g", "h", "i", "j", "k", "l", "m",
                   "n", "o", "p", "q", "r", "s", "t", "u", "v", "w", "x", "y", "z" >>
UpperLetters == << "A", "B", "C", "D", "E", "F", "G", "H", "I", "J", "K", "L", "M",
                   "N", "O", "P", "Q", "R", "S", "T", "U", "V", "W", "X", "Y", "Z" >>

\* str.upper() on one ASCII character.
UpperChar(c) ==
    IF \E i \in 1..Len(LowerLetters) : LowerLetters[i] = c
    THEN UpperLetters[CHOOSE i \in 1..Len(LowerLetters) : LowerLetters[i] = c]
    ELSE c

\* str.upper()
Upper(str) == [i \in 1..Len(str) |-> UpperChar(str[i])]

LevelCRITICAL == << "C", "R", "I", "T", "I", "C", "A", "L" >>
LevelERROR == << "E", "R", "R", "O", "R" >>
LevelWARNING == << "W", "A", "R", "N", "I", "N", "G" >>
LevelINFO == << "I", "N", "F", "O" >>
LevelDEBUG == << "D", "E", "B", "U", "G" >>
LevelNOTSET == << "N", "O", "T", "S", "E", "T" >>

ALLOWED_LOG_LEVELS ==
    {LevelCRITICAL, LevelERROR, LevelWARNING, LevelINFO, LevelDEBUG, LevelNOTSET}

\* The environment holds the variable or not: [set |-> FALSE] or
\* [set |-> TRUE, value |-> text].  os.environ.get(name, default).
Unset == [set |-> FALSE, value |-> << >>]
EnvGet(env, default) == IF env.set THEN env.value ELSE default

\* The text that is compared as it is, without upper-casing.
EnvLogLevelAsGiven(env) == EnvGet(env, LevelINFO)

\* env_log_level
EnvLogLevel(env) == Upper(EnvGet(env, LevelINFO))

\* LOG_LEVEL, as lines 56-59 set it.
ValidatedLogLevel(env) ==
    IF EnvLogLevel(env) \in ALLOWED_LOG_LEVELS THEN EnvLogLevel(env) ELSE LevelINFO

\* getattr(logging, name, logging.INFO): the numeric level of a level name.
LevelNumber(name) ==
    CASE name = LevelCRITICAL -> 50
      [] name = LevelERROR -> 40
      [] name = LevelWARNING -> 30
      [] name = LevelINFO -> 20
      [] name = LevelDEBUG -> 10
      [] name = LevelNOTSET -> 0
      [] OTHER -> 20

\* ---------------------------------------------------------------- variables
\* A call of pick_loudest_bars on its own.
VARIABLES p_pc, p_stem, p_beats, p_bars, p_bpb, p_result, p_reads
\* process_audio: where the job is, its result, its parameters.
VARIABLES pc, status, beat_detection, output_path, intro_bars, outro_bars
\* What detection and separation gave: (tempo, beat_times), the stem files on
\* disk (stem name -> [exists, audio]) and the decoded input track.
VARIABLES detection, stem_files, main_song
\* The locals of create_extended_mix, the stem files it has opened so far and
\* the file at output_path ("absent", "partial" or "complete").
VARIABLES version, opened, loaded, picked, intro_zipped, full_intro,
          extended_mix, out_file
\* Which call of create_extended_mix this is, and what the call before it was
\* given to shuffle and made of it.
VARIABLES run, prev
\* The metadata records the job has written next to the mix (the module's
\* 'shuffle_info.json'); no statement of the module writes one.
VARIABLES shuffle_info

\* utils.py at import: where the module-level code is, the environment's
\* LOG_LEVEL, the validated LOG_LEVEL and the level given to basicConfig.
VARIABLES l_pc, environ, LOG_LEVEL, root_level
\* The version parse on its own: where it is, the path, the version.
VARIABLES v_pc, v_path, v_version

pickVars == << p_pc, p_stem, p_beats, p_bars, p_bpb, p_result, p_reads >>
paramVars == << beat_detection, output_path, intro_bars, outro_bars >>
inputVars == << detection, stem_files, main_song >>
mixVars == << version, opened, loaded, picked, intro_zipped, full_intro,
              extended_mix >>
jobVars == << pc, status, paramVars, inputVars, mixVars, out_file, run, prev,
             shuffle_info >>
logVars == << l_pc, environ, LOG_LEVEL, root_level >>
versionVars == << v_pc, v_path, v_version >>
\* What a job leaves alone.
asideVars == << pickVars, logVars, versionVars >>
vars == << pickVars, jobVars, logVars, versionVars >>

StemNames == {"vocals", "drums", "bass", "other"}
UsedStems == {"drums", "other", "vocals"}
NoAudio == [n \in UsedStems |-> << >>]
NoFiles == [n \in StemNames |-> [exists |-> FALSE, audio |-> << >>]]

\* No job is under way (pick_loudest_bars is studied on its own).
JobIdle ==
    /\ pc = "idle" /\ status = "none"
    /\ beat_detection = "auto" /\ output_path = << >>
    /\ intro_bars = 0 /\ outro_bars = 0
    /\ detection = NoDetection /\ stem_files = NoFiles /\ main_song = << >>
    /\ version = 1 /\ opened = {} /\ loaded = NoAudio /\ picked = NoAudio
    /\ intro_zipped = << >> /\ full_intro = << >> /\ extended_mix = << >>
    /\ out_file = "absent" /\ run = 1 /\ prev = << >>
    /\ shuffle_info = << >>

\* No call of pick_loudest_bars on its own is under way.
PickIdle ==
    /\ p_pc = "idle" /\ p_stem = << >> /\ p_beats = << >>
    /\ p_bars = 0 /\ p_bpb = 1 /\ p_result = << >> /\ p_reads = {}

\* utils.py is not being imported on its own.
LogIdle ==
    /\ l_pc = "idle" /\ environ = Unset
    /\ LOG_LEVEL = LevelINFO /\ root_level = LevelNumber(LevelINFO)

\* No version parse on its own is under way.
VersionIdle == v_pc = "idle" /\ v_path = << >> /\ v_version = 1

\* ------------------------------------- pick_loudest_bars as a pure function
Amps == {0, 1, 2}
PickGaps == {TimeRes \div 2, TimeRes + 1}

RECURSIVE Samples(_)
\* Every stem of n ms with amplitudes from Amps, sample by sample.
Samples(n) ==
    IF n = 0 THEN {<< >>}
    ELSE {<< FlatRun(1, a) >> \o s : a \in Amps, s \in Samples(n - 1)}

PickStems == {Norm(s) : s \in Samples(PickStemMs)}

RECURSIVE GridsOf(_)
\* Every non-decreasing grid of n beats starting at 0 with gaps from PickGaps.
GridsOf(n) ==
    IF n = 0 THEN {<< >>}
    ELSE IF n = 1 THEN {<< 0 >>}
    ELSE {Append(g, g[Len(g)] + d) : g \in GridsOf(n - 1), d \in PickGaps}

PickGrids == UNION {GridsOf(n) : n \in 0..MaxPickBeats}

\* The scenario of 40 beats 500 ms apart and a stem that is loud exactly over
\* beats [10, 26), scanned with 4 bars of 4 beats.
ExampleBeats == [k \in 1..40 |-> (k - 1) * 500 * TimeRes]
ExampleStem == << FlatRun(5000, 1), FlatRun(8000, 2), FlatRun(7000, 1) >>

PickCalls ==
    [stem : PickStems, beats : PickGrids, bars : 0..2, bpb : 1..2]
    \cup {[stem |-> ExampleStem, beats |-> ExampleBeats,
           bars |-> DEFAULT_BARS_COUNT, bpb |-> DEFAULT_BEATS_PER_BAR]}

InitPick ==
    /\ p_pc = "call"
    /\ \E c \in PickCalls :
          /\ p_stem = c.stem
          /\ p_beats = c.beats
          /\ p_bars = c.bars
          /\ p_bpb = c.bpb
    /\ p_result = << >>
    /\ p_reads = {}
    /\ JobIdle /\ LogIdle /\ VersionIdle

Pick ==
    /\ p_pc = "call"
    /\ p_result' = pick_loudest_bars(p_stem, p_beats, p_bars, p_bpb)
    /\ p_reads' = GridReads(p_stem, p_beats, p_bars, p_bpb)
    /\ p_pc' = "returned"
    /\ UNCHANGED << p_stem, p_beats, p_bars, p_bpb >>
    /\ UNCHANGED << jobVars, logVars, versionVars >>

NextPick == Pick

SpecPick == InitPick /\ [][NextPick]_vars

\* ------------------------------------------------------------ process_audio
\* Job bounds: bars per section, beats a detector reports, runs of the mix.
MaxBars == 1
MaxBeats == 13
MaxRuns == 2

Methods == {"librosa", "madmom", "auto"}
Tempos == {0, 120}

\* Output paths: m_v2.mp3, m.mp3, m_v3.xyz, a_v/m.wav
OutputPaths ==
    { << "m", "_", "v", "2", ".", "m", "p", "3" >>,
      << "m", ".", "m", "p", "3" >>,
      << "m", "_", "v", "3", ".", "x", "y", "z" >>,
      << "a", "_", "v", "/", "m", ".", "w", "a", "v" >> }

\* Beat grids a detector can report, in units of 1/TimeRes s: n beats half a
\* second apart, a third of a second apart, or speeding down half way.
GridHalf(n) == [k \in 1..n |-> (k - 1) * (TimeRes \div 2)]
GridThird(n) == [k \in 1..n |-> (k - 1) * (TimeRes \div 3)]
GridSwing(n) ==
    [k \in 1..n |-> IF k - 1 <= n \div 2
                    THEN (k - 1) * (TimeRes \div 3)
                    ELSE (n \div 2) * (TimeRes \div 3)
                         + (k - 1 - n \div 2) * (TimeRes \div 2)]
BeatCounts == {0, MaxBeats - 2, MaxBeats - 1, MaxBeats}
BeatGrids == UNION {{GridHalf(n), GridThird(n), GridSwing(n)} : n \in BeatCounts}

DetectorOutcomes ==
    {[raised |-> TRUE, tempo |-> 0, beats |-> << >>]}
    \cup [raised : {FALSE}, tempo : Tempos, beats : BeatGrids]

\* Tracks: the decoded input and the stems separated from it.  Track 1 has a
\* loud passage in each stem, track 2 is silent stems, track 3 is track 1 with
\* the stems cut off early by the separator.
SongMs == 6500
CutMs == 3500
Stem(loudFrom, loudTo, quiet, loud) ==
    Norm(<< FlatRun(loudFrom, quiet), FlatRun(loudTo - loudFrom, loud),
            FlatRun(SongMs - loudTo, quiet) >>)
TrackStems(t) ==
    LET full == [n \in StemNames |->
                    CASE n = "drums" -> Stem(1000, 3000, 1, 2)
                      [] n = "other" -> Stem(3000, 5500, 0, 2)
                      [] n = "vocals" -> Stem(1600, 3100, 0, 2)
                      [] n = "bass" -> Stem(0, SongMs, 1, 1)]
    IN  CASE t = 1 -> full
          [] t = 2 -> [n \in StemNames |-> << FlatRun(SongMs, 0) >>]
          [] t = 3 -> [n \in StemNames |-> GetSlice(full[n], 0, CutMs)]
Tracks == 1..3
TrackSong(t) == << FlatRun(SongMs, 2) >>

\* What separation leaves on disk: every stem file, or all but one.
FilesOf(t, absent) ==
    [n \in StemNames |->
        IF n \in absent THEN [exists |-> FALSE, audio |-> << >>]
        ELSE [exists |-> TRUE, audio |-> TrackStems(t)[n]]]
Absences == {{}} \cup {{n} : n \in StemNames}

Init ==
    /\ pc = "detect" /\ status = "running"
    /\ beat_detection \in Methods
    /\ output_path \in OutputPaths
    /\ intro_bars \in 0..MaxBars
    /\ outro_bars \in 0..MaxBars
    /\ detection = NoDetection /\ stem_files = NoFiles /\ main_song = << >>
    /\ version = 1 /\ opened = {} /\ loaded = NoAudio /\ picked = NoAudio
    /\ intro_zipped = << >> /\ full_intro = << >> /\ extended_mix = << >>
    /\ out_file = "absent" /\ run = 1 /\ prev = << >>
    /\ shuffle_info = << >>
    /\ PickIdle /\ LogIdle /\ VersionIdle

\* The exception leaves process_audio instead of being turned into False.
RaiseUncaught == pc' = "done" /\ status' = "raised"

\* `return False`, from process_audio or from create_extended_mix.
ReturnFalse == pc' = "done" /\ status' = "False"

\* Lines 281-285: detect_tempo_and_beats and the check of its result.
DetectBeats ==
    /\ pc = "detect"
    /\ \E lib \in DetectorOutcomes, mad \in DetectorOutcomes :
          detection' = detect_tempo_and_beats(beat_detection, lib, mad)
    /\ IF DetectionFailed(detection')
       THEN ReturnFalse
       ELSE pc' = "separate" /\ status' = status
    /\ UNCHANGED << paramVars, stem_files, main_song, mixVars, out_file, run, prev,
                    shuffle_info, asideVars >>

\* Lines 287-291 with 130-155: separation raises (None comes back, and the
\* unpacking of None raises in its turn), or leaves stem files and the track.
Separate ==
    /\ pc = "separate"
    /\ \/ /\ ReturnFalse
          /\ UNCHANGED << stem_files, main_song >>
       \/ /\ \E t \in Tracks, absent \in Absences :
                /\ stem_files' = FilesOf(t, absent)
                /\ main_song' = TrackSong(t)
          /\ pc' = "gate" /\ status' = status
    /\ UNCHANGED << paramVars, detection, mixVars, out_file, run, prev, shuffle_info, asideVars >>

\* Lines 203-217: the beat-count gate, then the version from the path.
Gate ==
    /\ pc = "gate"
    /\ IF NotEnoughBeats(detection.beat_times, intro_bars, outro_bars)
       THEN ReturnFalse /\ version' = version
       ELSE pc' = "load" /\ status' = status /\ version' = ParseVersion(output_path)
    /\ UNCHANGED << paramVars, inputVars, opened, loaded, picked, intro_zipped,
                    full_intro, extended_mix, out_file, run, prev, shuffle_info, asideVars >>

\* The stems from_file gets to open, in the order drums, other, vocals, before
\* one is missing.
OpenedStems ==
    IF ~stem_files["drums"].exists THEN {"drums"}
    ELSE IF ~stem_files["other"].exists THEN {"drums", "other"}
    ELSE {"drums", "other", "vocals"}

\* Lines 219-221: AudioSegment.from_file raises on a missing file.
LoadStems ==
    /\ pc = "load"
    /\ opened' = OpenedStems
    /\ IF \E n \in UsedStems : ~stem_files[n].exists
       THEN ReturnFalse /\ loaded' = loaded
       ELSE /\ loaded' = [n \in UsedStems |->
                            IF n = "other"
                            THEN ApplyGain(stem_files[n].audio, OTHER_STEM_GAIN_DB)
                            ELSE stem_files[n].audio]
            /\ pc' = "pick" /\ status' = status
    /\ UNCHANGED << paramVars, inputVars, version, picked, intro_zipped, full_intro,
                    extended_mix, out_file, run, prev, shuffle_info, asideVars >>

\* Lines 223-230.
PickSegments ==
    /\ pc = "pick"
    /\ picked' = [n \in UsedStems |->
                    pick_loudest_bars(loaded[n], BeatTimesMs(detection.beat_times),
                                      intro_bars, DEFAULT_BEATS_PER_BAR)]
    /\ pc' = "shuffle"
    /\ UNCHANGED << status, paramVars, inputVars, version, opened, loaded,
                    intro_zipped, full_intro, extended_mix, out_file, run, prev,
                    shuffle_info, asideVars >>

\* Lines 233-235: what is handed to the shuffle.
IntroSegments == << picked["drums"], picked["other"], picked["drums"], picked["vocals"] >>

\* Lines 233-239.
Shuffle ==
    /\ pc = "shuffle"
    /\ intro_zipped' \in ShuffleOutcomes(Zip(IntroLabels, IntroSegments), version)
    /\ pc' = "mix"
    /\ UNCHANGED << status, paramVars, inputVars, version, opened, loaded, picked,
                    full_intro, extended_mix, out_file, run, prev, shuffle_info, asideVars >>

\* Lines 238-239.
intro_components == [k \in DOMAIN intro_zipped |-> intro_zipped[k].seg]
shuffled_intro_order == [k \in DOMAIN intro_zipped |-> intro_zipped[k].label]

\* Line 241.
MixIntro ==
    /\ pc = "mix"
    /\ full_intro' = FadeIn(SumSegments(intro_components), FADE_IN_MS)
    /\ pc' = "splice"
    /\ UNCHANGED << status, paramVars, inputVars, version, opened, loaded, picked,
                    intro_zipped, extended_mix, out_file, run, prev, shuffle_info, asideVars >>

\* Line 243.
Splice ==
    /\ pc = "splice"
    /\ IF AppendFails(full_intro, main_song, CROSSFADE_MS)
       THEN ReturnFalse /\ extended_mix' = extended_mix
       ELSE /\ extended_mix' = AppendCrossfade(full_intro, main_song, CROSSFADE_MS)
            /\ pc' = "export" /\ status' = status
    /\ UNCHANGED << paramVars, inputVars, version, opened, loaded, picked,
                    intro_zipped, full_intro, out_file, run, prev, shuffle_info, asideVars >>

\* Lines 245-253: export opens output_path for writing, encodes, and writes;
\* the path may not open (nothing is written), the encoder may fail with the
\* file already created, or the whole mix is written.
Export ==
    /\ pc = "export"
    /\ \/ ReturnFalse /\ out_file' = out_file
       \/ ReturnFalse /\ out_file' = "partial"
       \/ /\ ExportFormat(output_path) \in EncodableFormats
          /\ out_file' = "complete"
          /\ pc' = "done" /\ status' = "True"
    /\ UNCHANGED << paramVars, inputVars, mixVars, run, prev, shuffle_info, asideVars >>

Next ==
    \/ DetectBeats
    \/ Separate
    \/ Gate
    \/ LoadStems
    \/ PickSegments
    \/ Shuffle
    \/ MixIntro
    \/ Splice
    \/ Export

Spec == Init /\ [][Next]_vars

\* create_extended_mix is called once more with the same arguments (the same
\* components, output path, bars, beat times and track), after a call that
\* succeeded; what that call shuffled is kept for comparison.
Rerun ==
    /\ pc = "done" /\ status = "True" /\ run < MaxRuns
    /\ prev' = << [version |-> version,
                   given |-> Zip(IntroLabels, IntroSegments),
                   order |-> shuffled_intro_order] >>
    /\ run' = run + 1
    /\ pc' = "gate" /\ status' = "running"
    /\ version' = 1 /\ opened' = {} /\ loaded' = NoAudio /\ picked' = NoAudio
    /\ intro_zipped' = << >> /\ full_intro' = << >> /\ extended_mix' = << >>
    /\ UNCHANGED << paramVars, inputVars, out_file, shuffle_info, asideVars >>

\* Jobs that are run again: one detector, one section length, two paths.
InitRerun ==
    /\ Init
    /\ beat_detection = "librosa"
    /\ intro_bars = 1 /\ outro_bars = 0
    /\ output_path \in { << "m", "_", "v", "2", ".", "m", "p", "3" >>,
                         << "m", ".", "m", "p", "3" >> }

NextRerun == Next \/ Rerun

SpecRerun == InitRerun /\ [][NextRerun]_vars

\* ------------------------------------------------ utils.py at import time
MaxLevelLen == 4
LevelAlphabet == {"i", "I", "n", "N", "f", "o", "x"}

RECURSIVE TextsOf(_)
\* Every text of n characters over LevelAlphabet.
TextsOf(n) ==
    IF n = 0 THEN {<< >>}
    ELSE {<< c >> \o t : c \in LevelAlphabet, t \in TextsOf(n - 1)}

\* The values the test script tries, and the level names in other spellings.
TriedValues ==
    { << "D", "E", "B", "U", "G" >>, << "i", "n", "f", "o" >>,
      << "E", "R", "R", "O", "R" >>,
      << "i", "n", "v", "a", "l", "i", "d", "_", "l", "e", "v", "e", "l" >>,
      << "I", "N", "J", "E", "C", "T", "I", "O", "N", "_",
         "A", "T", "T", "E", "M", "P", "T" >>,
      << >>,
      << "d", "e", "b", "u", "g" >>, << "W", "a", "r", "n", "i", "n", "g" >>,
      << "c", "r", "i", "t", "i", "c", "a", "l" >>,
      << "N", "o", "t", "S", "e", "t" >>, << "n", "o", "t", "s", "e", "t" >>,
      << "D", "E", "B", "U", "G", " " >>, << "1", "0" >>,
      << "W", "A", "R", "N" >>, << "F", "A", "T", "A", "L" >>,
      << "I", "N", "F", "O" >>, << "W", "A", "R", "N", "I", "N", "G" >>,
      << "C", "R", "I", "T", "I", "C", "A", "L" >>,
      << "N", "O", "T", "S", "E", "T" >> }

EnvValues == TriedValues \cup UNION {TextsOf(n) : n \in 0..MaxLevelLen}

InitLog ==
    /\ l_pc = "import"
    /\ environ \in {Unset} \cup [set : {TRUE}, value : EnvValues]
    /\ LOG_LEVEL = LevelINFO /\ root_level = LevelNumber(LevelINFO)
    /\ VersionIdle /\ PickIdle /\ JobIdle

\* Lines 53-63 of utils.py, run once when the module is imported.
ConfigureLogging ==
    /\ l_pc = "import"
    /\ LOG_LEVEL' = ValidatedLogLevel(environ)
    /\ root_level' = LevelNumber(LOG_LEVEL')
    /\ l_pc' = "configured"
    /\ UNCHANGED << environ, versionVars, pickVars, jobVars >>

NextLog == ConfigureLogging

SpecLog == InitLog /\ [][NextLog]_vars

\* -------------------------------------------- the version parse on its own
VersionDirs ==
    { << >>, << "a", "/" >>, << "a", "_", "v", "/" >>,
      << "a", "_", "v", "3", "/" >>, << "a", "_", "v", "3", ".", "d", "/" >> }
VersionStems ==
    { << "m" >>, << "m", "_", "v", "2" >>, << "m", "_", "v" >>,
      << "m", "_", "v", "2", "x" >>, << "m", "_", "v", "1", "2" >>,
      << "m", "_", "v", "0" >>, << "m", "o", "_", "v", "i", "e" >>,
      << "m", "_", "V", "2" >> }
VersionExts ==
    { << >>, << ".", "m", "p", "3" >>, << ".", "w", "a", "v" >>,
      << ".", "t", "a", "r", ".", "g", "z" >>, << ".", "5", ".", "m", "p", "3" >> }

VersionPaths == {d \o b \o e : d \in VersionDirs, b \in VersionStems, e \in VersionExts}

InitVersion ==
    /\ v_pc = "call"
    /\ v_path \in VersionPaths
    /\ v_version = 1
    /\ LogIdle /\ PickIdle /\ JobIdle

\* Lines 212-217 of create_extended_mix on their own.
Parse ==
    /\ v_pc = "call"
    /\ v_version' = ParseVersion(v_path)
    /\ v_pc' = "parsed"
    /\ UNCHANGED << v_path, logVars, pickVars, jobVars >>

NextVersion == Parse

SpecVersion == InitVersion /\ [][NextVersion]_vars

\* ------------------------------------------------- claims on pick_loudest_bars
p_N == Len(p_beats)
p_W == p_bpb * p_bars
\* The slice of the call's stem over the window that starts at beat i.
p_Window(i) == GetSlice(p_stem, IntMs(At(p_beats, i)), IntMs(At(p_beats, i + p_W)))

\* C1 as stated: with N < W + 1 the stem comes back unchanged; with N >= W + 1
\* the result is the window of some start index i in [0, N - W) and is exactly
\* grid[i+W] - grid[i] ms long; the grid is only read inside 0..N-1.
C1_AsStated ==
    p_pc = "returned" =>
        /\ p_N < p_W + 1 => p_result = p_stem
        /\ p_N >= p_W + 1 =>
              \E i \in 0..(p_N - p_W - 1) :
                  /\ p_result = p_Window(i)
                  /\ Duration(p_result) * TimeRes = At(p_beats, i + p_W) - At(p_beats, i)
        /\ p_reads \subseteq 0..(p_N - 1)

\* C1 amended: with N >= W + 1 the result is stem[int(grid[i]) : int(grid[i+W])]
\* for some start index i in [0, N - W); its length is the distance between the
\* two truncated beat positions, each capped at the stem's length.
C1_PickWindow ==
    p_pc = "returned" =>
        /\ p_N < p_W + 1 => p_result = p_stem
        /\ p_N >= p_W + 1 =>
              \E i \in 0..(p_N - p_W - 1) :
                  /\ p_result = p_Window(i)
                  /\ Duration(p_result) =
                        Min(Duration(p_stem), IntMs(At(p_beats, i + p_W)))
                        - Min(Duration(p_stem), IntMs(At(p_beats, i)))
        /\ p_reads \subseteq 0..(p_N - 1)

\* A call that scanned several windows and returned a proper, non-empty part of
\* the stem, cut short by the stem's end.
C1_Witness ==
    /\ p_pc = "returned"
    /\ p_W > 0
    /\ p_N >= p_W + 2
    /\ p_result # << >>
    /\ p_result # p_stem
    /\ IntMs(At(p_beats, p_N - 1)) > Duration(p_stem)
    /\ \E i \in 0..(p_N - p_W - 1) :
          /\ p_result = p_Window(i)
          /\ IntMs(At(p_beats, i + p_W)) > Duration(p_stem)

p_MaxRms == CHOOSE m \in {Rms(p_Window(i)) : i \in 0..(p_N - p_W - 1)} :
                \A i \in 0..(p_N - p_W - 1) : Rms(p_Window(i)) <= m
p_FirstLoudest == CHOOSE i \in 0..(p_N - p_W - 1) :
                      /\ Rms(p_Window(i)) = p_MaxRms
                      /\ \A j \in 0..(i - 1) : Rms(p_Window(j)) < p_MaxRms

\* C2: with N >= W + 1 the result is the window of the smallest start index
\* whose RMS is the maximum over all start indices in [0, N - W); in the
\* 40-beat scenario that is [5000 ms, 13000 ms).
C2_FirstLoudestWins ==
    p_pc = "returned" /\ p_N >= p_W + 1 =>
        /\ p_result = p_Window(p_FirstLoudest)
        /\ \A i \in 0..(p_N - p_W - 1) : Rms(p_Window(i)) <= Rms(p_result)
        /\ p_beats = ExampleBeats /\ p_stem = ExampleStem =>
              p_result = << FlatRun(8000, 2) >> /\ p_FirstLoudest = 10

\* Two windows tie for the maximum RMS, with different audio, and the earlier
\* one was returned.
C2_Witness ==
    /\ p_pc = "returned"
    /\ p_N >= p_W + 2
    /\ p_MaxRms > 0
    /\ \E j \in 0..(p_N - p_W - 1) :
          /\ j > p_FirstLoudest
          /\ Rms(p_Window(j)) = p_MaxRms
          /\ p_Window(j) # p_Window(p_FirstLoudest)
    /\ p_result = p_Window(p_FirstLoudest)

\* ------------------------------------------------------- claims on the job
j_N == Len(detection.beat_times)
j_T == RequiredBeats(intro_bars, outro_bars)
\* Separation has produced its stem files, so the job got to the gate.
j_Separated == stem_files # NoFiles
j_PastGate == pc \notin {"detect", "separate", "gate"}

\* C3: with fewer than T = intro_bars*4 + outro_bars*4 + 8 beats the job fails
\* and no stem is opened, sliced, shuffled or exported; with T beats or more the
\* gate lets the job through to the loading of the stems.
C3_GateBoundary ==
    /\ j_N < j_T =>
          /\ pc \in {"detect", "separate", "gate", "done"}
          /\ status # "True"
          /\ opened = {} /\ loaded = NoAudio /\ picked = NoAudio
          /\ intro_zipped = << >> /\ extended_mix = << >> /\ out_file = "absent"
    /\ j_N >= j_T /\ j_Separated /\ j_PastGate => pc = "load" \/ opened # {}

\* The gate turned a job down that was one beat short, stems at hand.
C3_Witness ==
    /\ pc = "done" /\ status = "False"
    /\ j_Separated
    /\ \A n \in UsedStems : stem_files[n].exists
    /\ j_N = j_T - 1

\* C4 as stated: a detection result with no beats or with a tempo <= 0 never
\* gets a job to open or select from a stem, whichever detector gave it.
C4_AsStated ==
    ~detection.none /\ (detection.tempo <= 0 \/ j_N = 0) =>
        opened = {} /\ picked = NoAudio /\ status # "True"

\* C5 as stated: a second call with the same segments to shuffle and the same
\* version arrives at the same shuffle order as the first.
C5_AsStated ==
    /\ run > 1 /\ intro_zipped # << >>
    /\ prev[1].version = version
    /\ prev[1].given = Zip(IntroLabels, IntroSegments)
    => shuffled_intro_order = prev[1].order

\* C5 amended: the shuffle takes no seed; whatever the version, each
\* arrangement of the four labelled segments can come out of it.
C5_AnyOrderAnyVersion ==
    pc = "shuffle" =>
        \A z \in Arrangements(Zip(IntroLabels, IntroSegments)) :
            ENABLED (Shuffle /\ intro_zipped' = z)

\* Two calls with the same version and the same segments disagree.
C5_Witness ==
    /\ run > 1 /\ intro_zipped # << >>
    /\ prev[1].version = version /\ version = 2
    /\ prev[1].given = Zip(IntroLabels, IntroSegments)
    /\ shuffled_intro_order # prev[1].order

LabelCount(order, l) == Cardinality({k \in DOMAIN order : order[k] = l})

\* C6: the recorded labels are a rearrangement of [drums, other, drums,
\* vocals], and the segment at position k is the one selected from the stem
\* that label k names.
C6_LabelsFollowSegments ==
    intro_zipped # << >> =>
        /\ Len(shuffled_intro_order) = 4
        /\ LabelCount(shuffled_intro_order, "drums") = 2
        /\ LabelCount(shuffled_intro_order, "other") = 1
        /\ LabelCount(shuffled_intro_order, "vocals") = 1
        /\ \A k \in 1..4 : intro_components[k] = picked[shuffled_intro_order[k]]

\* A shuffle that moved things, over three different segments.
C6_Witness ==
    /\ pc = "mix"
    /\ shuffled_intro_order # IntroLabels
    /\ shuffled_intro_order[1] = "vocals"
    /\ picked["drums"] # picked["other"]
    /\ picked["drums"] # picked["vocals"]
    /\ picked["other"] # picked["vocals"]
    /\ \A n \in UsedStems : picked[n] # << >>

RECURSIVE TotalDuration(_)
TotalDuration(segments) ==
    IF segments = << >> THEN 0
    ELSE Duration(Head(segments)) + TotalDuration(Tail(segments))

\* A buffer's samples before any fade.
Unfaded(seg) ==
    Norm([i \in DOMAIN seg |->
            [d |-> seg[i].d,
             layers |-> [j \in DOMAIN seg[i].layers |->
                            [a |-> seg[i].layers[j].a, env |-> << >>]]]])

j_CommonDuration ==
    \A k \in 1..4 : Duration(intro_components[k]) = Duration(intro_components[1])

\* C7 as stated: four segments of duration D are overlaid into an intro of
\* duration D.
C7_AsStated ==
    pc = "splice" /\ j_CommonDuration =>
        Duration(full_intro) = Duration(intro_components[1])

\* C7 amended: the intro is the four shuffled segments one after the other in
\* shuffle order (four segments of duration D give 4 * D), every sample kept,
\* one layer throughout; the fade-in covers the first 2000 ms and nothing else.
C7_IntroConcatenated ==
    pc = "splice" =>
        /\ Duration(full_intro) = TotalDuration(intro_components)
        /\ j_CommonDuration =>
              Duration(full_intro) = 4 * Duration(intro_components[1])
        /\ Unfaded(full_intro) =
              Norm(intro_components[1] \o intro_components[2]
                   \o intro_components[3] \o intro_components[4])
        /\ \A i \in DOMAIN full_intro : Len(full_intro[i].layers) = 1
        /\ \A i \in DOMAIN Take(full_intro, FADE_IN_MS) :
              Take(full_intro, FADE_IN_MS)[i].layers[1].env =
                 << << "in", Duration(SubSeq(full_intro, 1, i - 1)), FADE_IN_MS >> >>
        /\ \A i \in DOMAIN Drop(full_intro, FADE_IN_MS) :
              Drop(full_intro, FADE_IN_MS)[i].layers[1].env = << >>

\* An intro of four equally long segments that outlasts the fade-in.
C7_Witness ==
    /\ pc = "splice"
    /\ j_CommonDuration
    /\ Duration(intro_components[1]) > 0
    /\ Duration(full_intro) = 4 * Duration(intro_components[1])
    /\ Duration(full_intro) > FADE_IN_MS
    /\ shuffled_intro_order # IntroLabels

\* C8 as stated: once the gate is passed, the three selected segments are
\* equally long.
C8_AsStated ==
    pc = "shuffle" =>
        \A n \in UsedStems : Duration(picked[n]) = Duration(picked["drums"])

j_BeatMs(k) == IntMs(BeatTimesMs(detection.beat_times)[k])
\* The beats, truncated to whole ms, are equally spaced.
j_EvenGrid ==
    \A k \in 1..(j_N - 1) : j_BeatMs(k + 1) - j_BeatMs(k) = j_BeatMs(2) - j_BeatMs(1)
\* Every stem reaches the last beat.
j_StemsCoverGrid == \A n \in UsedStems : Duration(loaded[n]) >= j_BeatMs(j_N)

\* C8 amended: when the beats truncated to whole ms are equally spaced and
\* every stem reaches the last beat, the three selected segments are equally
\* long: the window of intro_bars * 4 beats times the spacing.
C8_EvenGridEqualSegments ==
    pc = "shuffle" /\ j_EvenGrid /\ j_StemsCoverGrid =>
        \A n \in UsedStems :
            Duration(picked[n]) =
               intro_bars * DEFAULT_BEATS_PER_BAR * (j_BeatMs(2) - j_BeatMs(1))

\* Three different selections from an evenly spaced grid.
C8_Witness ==
    /\ pc = "shuffle" /\ j_EvenGrid /\ j_StemsCoverGrid
    /\ intro_bars > 0
    /\ picked["drums"] # picked["other"]
    /\ picked["drums"] # picked["vocals"]
    /\ picked["other"] # picked["vocals"]
    /\ \A n \in UsedStems : Duration(picked[n]) = Duration(picked["drums"])
    /\ Duration(picked["drums"]) > 0

\* C9: an intro and a main track each longer than 500 ms are spliced into
\* a mix that lasts introDuration + mainDuration - 500 ms.
C9_CrossfadeLength ==
    pc = "export" /\ Duration(full_intro) > CROSSFADE_MS
                  /\ Duration(main_song) > CROSSFADE_MS =>
        Duration(extended_mix) =
           Duration(full_intro) + Duration(main_song) - CROSSFADE_MS

\* A splice of an intro and a track that are both longer than the crossfade.
C9_Witness ==
    /\ pc = "export"
    /\ Duration(full_intro) > CROSSFADE_MS
    /\ Duration(main_song) > CROSSFADE_MS
    /\ Duration(extended_mix) > Duration(main_song)

\* C10 as stated: a job that reports failure has left nothing at output_path,
\* and a file is there only when the job reports success.
C10_AsStated ==
    /\ status = "False" => out_file = "absent"
    /\ out_file # "absent" => status = "True"

\* C11 as stated: a call of create_extended_mix that reports success has
\* written, next to the mix, a metadata record holding the shuffle order the
\* intro was built with.
C11_AsStated ==
    status = "True" =>
        /\ shuffle_info # << >>
        /\ shuffle_info[Len(shuffle_info)].order = shuffled_intro_order

\* C12 as stated: when one of the four stem files is absent after separation,
\* the job does not report success.
C12_AsStated ==
    j_Separated /\ (\E n \in StemNames : ~stem_files[n].exists) => status # "True"

\* C13: once utils.py has configured logging, LOG_LEVEL is one of the six
\* allowed names; it is the upper-cased environment value when that is one of
\* them, and INFO when the variable is unset, empty or anything else.
C13_LogLevelValidated ==
    l_pc = "configured" =>
        /\ LOG_LEVEL \in ALLOWED_LOG_LEVELS
        /\ root_level \in {50, 40, 30, 20, 10, 0}
        /\ IF environ.set /\ Upper(environ.value) \in ALLOWED_LOG_LEVELS
           THEN LOG_LEVEL = Upper(environ.value)
           ELSE LOG_LEVEL = LevelINFO
        /\ environ.set /\ environ.value = << "d", "e", "b", "u", "g" >>
               => LOG_LEVEL = LevelDEBUG
        /\ environ.set /\ environ.value = << "i", "N", "f", "o" >>
               => LOG_LEVEL = LevelINFO
        /\ environ.set /\ environ.value \in {<< >>, << "W", "A", "R", "N" >>}
               => LOG_LEVEL = LevelINFO

\* A lower-case level name was given and logging runs at that level.
C13_Witness ==
    /\ l_pc = "configured"
    /\ environ = [set |-> TRUE, value |-> << "d", "e", "b", "u", "g" >>]
    /\ LOG_LEVEL = LevelDEBUG /\ root_level = 10

\* C14 as stated: the parsed version is the integer N of a `_vN` that ends the
\* output file's name before its extension (read here as everything from the
\* name's first dot), and 1 when the name has no such suffix, a `_v` in a
\* directory name or inside a word included.
C14_AsStated ==
    v_pc = "parsed" =>
        LET name == SplitFirst(SplitLast(v_path, << "/" >>), << "." >>)
            text == SplitLast(name, << "_", "v" >>)
            suffixed == /\ Contains(name, << "_", "v" >>)
                        /\ text # << >>
                        /\ \A i \in 1..Len(text) : text[i] \in Digits
        IN  v_version = IF suffixed THEN DigitsValue(text, 0) ELSE 1

\* The job got as far as the crossfade and the intro or the track is shorter
\* than the crossfade.
j_CrossfadeRaised ==
    /\ pc = "done" /\ intro_zipped # << >>
    /\ AppendFails(full_intro, main_song, CROSSFADE_MS)

\* The positions of a job, and those whose step has no condition but the
\* position itself (plain assignments, or an IF with both branches).
PcValues == {"detect", "separate", "gate", "load", "pick", "shuffle", "mix",
             "splice", "export", "done"}
j_UnguardedSteps == {"gate", "pick", "mix", "splice"}

\* C15: process_audio always comes to an end with True or False and nothing
\* else (an unfinished job always has a next step, a finished one has a
\* boolean result); True only with the mix completely exported; False when
\* detection failed, separation failed, the gate rejected, a stem that is loaded
\* was missing, the crossfade raised, or the export raised.
C15_BooleanStatus ==
    /\ status \in {"running", "True", "False"}
    /\ pc = "done" <=> status \in {"True", "False"}
    /\ pc \notin {"done"} \cup j_UnguardedSteps => ENABLED Next
    /\ pc \in PcValues
    /\ status = "True" => out_file = "complete" /\ extended_mix # << >>
    /\ pc = "done" /\ \/ DetectionFailed(detection)
                      \/ ~j_Separated
                      \/ j_N < j_T
                      \/ \E n \in UsedStems : ~stem_files[n].exists
                      \/ j_CrossfadeRaised
                      \/ extended_mix # << >> /\ out_file # "complete"
           => status = "False"

\* A job whose intro came out shorter than the crossfade has returned False.
C15_Witness == j_CrossfadeRaised /\ status = "False" /\ out_file = "absent"

====
